---- MODULE Spec2Model ----
(***************************************************************************)
(* A model of the 2D physics engine: bodies (bodies.rs), collision         *)
(* detection and impulse resolution (collisions.rs) and the World stepper  *)
(* (mod.rs).                                                               *)
(*                                                                         *)
(* Numbers.  The program computes in f64.  The model computes in exact     *)
(* rationals <<n, d>> (d > 0, lowest terms), so every +, -, *, / of the    *)
(* source is the exact operation and rounding error is abstracted away.    *)
(* The one irrational operation, sqrt, is exact whenever its argument is   *)
(* the square of a rational and is otherwise rounded down to a multiple of *)
(* 1/SqrtDen (a finite-precision square root, as f64's is).                *)
(* Indices of bodies are 0-based as in the source; bodies[i + 1] is the    *)
(* source's bodies[i].                                                     *)
(***************************************************************************)
EXTENDS Integers, Sequences, FiniteSets, TLC

\* ------------------------------------------------------------------------
\* f64 arithmetic, as exact rationals
\* ------------------------------------------------------------------------

RECURSIVE Gcd(_, _)
Gcd(a, b) == IF b = 0 THEN a ELSE Gcd(b, a % b)

IAbs(x) == IF x < 0 THEN -x ELSE x

\* the rational n/d in lowest terms with a positive denominator
Rat(n, d) ==
    LET g == Gcd(IAbs(n), IAbs(d))
        s == IF d < 0 THEN -1 ELSE 1
    IN  <<(s * n) \div g, (s * d) \div g>>

Zero == <<0, 1>>
One == <<1, 1>>
Two == <<2, 1>>

RAdd(a, b) ==
    LET g == Gcd(a[2], b[2])
    IN  Rat(a[1] * (b[2] \div g) + b[1] * (a[2] \div g), (a[2] \div g) * b[2])
RSub(a, b) ==
    LET g == Gcd(a[2], b[2])
    IN  Rat(a[1] * (b[2] \div g) - b[1] * (a[2] \div g), (a[2] \div g) * b[2])
RMul(a, b) ==
    LET g1 == Gcd(IAbs(a[1]), b[2])
        g2 == Gcd(IAbs(b[1]), a[2])
    IN  Rat((a[1] \div g1) * (b[1] \div g2), (a[2] \div g2) * (b[2] \div g1))
\* division; the callers never divide by zero in the states the model reaches
RDiv(a, b) == RMul(a, IF b[1] < 0 THEN <<-b[2], -b[1]>> ELSE <<b[2], b[1]>>)
RNeg(a) == <<-a[1], a[2]>>
RLt(a, b) ==
    LET g == Gcd(a[2], b[2])
    IN  a[1] * (b[2] \div g) < b[1] * (a[2] \div g)
RLe(a, b) == ~RLt(b, a)
RAbs(a) == <<IAbs(a[1]), a[2]>>

\* f64::signum: 1.0 for +0.0 and positive numbers, -1.0 for negative ones
signum(a) == IF a[1] < 0 THEN <<-1, 1>> ELSE One

\* f64::clamp(self, min, max)
clamp(a, lo, hi) == IF RLt(a, lo) THEN lo ELSE IF RLt(hi, a) THEN hi ELSE a

\* a > 10^(-k) for a >= 0, without forming 10^k
RECURSIVE GtPow10(_, _, _)
GtPow10(n, d, k) ==
    IF n <= 0 THEN FALSE
    ELSE IF k = 0 THEN n > d
    ELSE IF n >= d THEN TRUE
    ELSE GtPow10(n * 10, d, k - 1)

GtEps(a, k) == GtPow10(a[1], a[2], k)

\* precision of an inexact square root: results are multiples of 1/SqrtDen
SqrtDen == 8

\* the largest i with i * i <= n, searched between lo and hi
RECURSIVE ISqrtIn(_, _, _)
ISqrtIn(n, lo, hi) ==
    IF lo >= hi THEN lo
    ELSE LET mid == (lo + hi + 1) \div 2
         IN  IF mid * mid <= n THEN ISqrtIn(n, mid, hi) ELSE ISqrtIn(n, lo, mid - 1)

ISqrt(n) == ISqrtIn(n, 0, IF n < 46340 THEN n ELSE 46340)

\* an inexact square root of n/d, rounded down to a multiple of 1/SqrtDen;
\* operands beyond 2^24 are first scaled down together
RECURSIVE SqrtFloor(_, _)
SqrtFloor(n, d) ==
    IF d >= 16777216 THEN SqrtFloor(n \div 4, d \div 4)
    ELSE IF n >= 16777216
         THEN IF d >= 4 THEN SqrtFloor(n \div 4, d \div 4) ELSE <<ISqrt(n \div d), 1>>
    ELSE Rat(ISqrt((n * SqrtDen * SqrtDen) \div d), SqrtDen)

\* f64::sqrt of a >= 0
sqrt(a) ==
    LET rn == ISqrt(a[1])
        rd == ISqrt(a[2])
    IN  IF rn * rn = a[1] /\ rd * rd = a[2]
        THEN <<rn, rd>>
        ELSE SqrtFloor(a[1], a[2])

\* ------------------------------------------------------------------------
\* nalgebra Vector2 / Point2
\* ------------------------------------------------------------------------

Vec(x, y) == [x |-> x, y |-> y]
zeros == Vec(Zero, Zero)
VAdd(u, v) == Vec(RAdd(u.x, v.x), RAdd(u.y, v.y))
VSub(u, v) == Vec(RSub(u.x, v.x), RSub(u.y, v.y))
VScale(u, k) == Vec(RMul(u.x, k), RMul(u.y, k))
VDivS(u, k) == Vec(RDiv(u.x, k), RDiv(u.y, k))
dot(u, v) == RAdd(RMul(u.x, v.x), RMul(u.y, v.y))
norm_squared(u) == dot(u, u)
\* the norm; along an axis it is the absolute value, which is what the square
\* root of the square comes to
norm(u) ==
    IF u.x = Zero THEN RAbs(u.y)
    ELSE IF u.y = Zero THEN RAbs(u.x)
    ELSE sqrt(norm_squared(u))
\* a vector with integer components
IV(x, y) == Vec(<<x, 1>>, <<y, 1>>)

\* ------------------------------------------------------------------------
\* bodies.rs: Shape, Material, BodyType, Body
\* ------------------------------------------------------------------------

Circle(radius) == [kind |-> "Circle", radius |-> radius]
Rectangle(width, height) == [kind |-> "Rectangle", width |-> width, height |-> height]

Material_new(density, restitution, friction) ==
    [density |-> density, restitution |-> restitution, friction |-> friction]

wood == Material_new(<<1, 2>>, <<3, 10>>, <<3, 10>>)
stone == Material_new(Two, <<1, 10>>, <<7, 10>>)
rubber == Material_new(<<3, 10>>, <<4, 5>>, <<7, 10>>)

\* std::f64::consts::PI, as the rational 22/7
PI == <<22, 7>>

Body_new(position, shape, material, body_type) ==
    [position |-> position,
     velocity |-> zeros,
     acceleration |-> zeros,
     mass |-> IF shape.kind = "Circle"
              THEN RMul(RMul(RMul(PI, shape.radius), shape.radius), material.density)
              ELSE RMul(RMul(shape.width, shape.height), material.density),
     shape |-> shape,
     material |-> material,
     body_type |-> body_type,
     force |-> zeros]

new_circle(position, radius, material, body_type) ==
    Body_new(position, Circle(radius), material, body_type)

new_rectangle(position, width, height, material, body_type) ==
    Body_new(position, Rectangle(width, height), material, body_type)

apply_force(body, force_to_apply) ==
    IF body.body_type = "Dynamic"
    THEN [body EXCEPT !.force = VAdd(body.force, force_to_apply)]
    ELSE body

\* Body::update with the position advanced by the velocity of before the step
Body_update_ExplicitEuler(body, dt) ==
    IF body.body_type = "Static" THEN body
    ELSE LET acceleration == VDivS(body.force, body.mass)
         IN  [body EXCEPT !.acceleration = acceleration,
                          !.velocity = VAdd(body.velocity, VScale(acceleration, dt)),
                          !.position = VAdd(body.position, VScale(body.velocity, dt))]

\* Body::update: semi-implicit Euler
Body_update(body, dt) ==
    IF body.body_type = "Static" THEN body
    ELSE LET acceleration == VDivS(body.force, body.mass)
             velocity == VAdd(body.velocity, VScale(acceleration, dt))
         IN  [body EXCEPT !.acceleration = acceleration,
                          !.velocity = velocity,
                          !.position = VAdd(body.position, VScale(velocity, dt))]

\* ------------------------------------------------------------------------
\* collisions.rs: detection
\* ------------------------------------------------------------------------

Collision(body_a, body_b, normal) ==
    [body_a |-> body_a, body_b |-> body_b, normal |-> normal]

\* Option<Collision>: None is the empty sequence, Some(c) is <<c>>
None == <<>>
Some(c) == <<c>>

calculate_circle_rectangle_collision(circle_body, rect_body, circle_idx, rect_idx, radius, width, height) ==
    LET circle_center == circle_body.position
        rect_center == rect_body.position
        half_extents == Vec(RDiv(width, Two), RDiv(height, Two))
        delta == VSub(circle_center, rect_center)
        clamped_x == clamp(delta.x, RNeg(half_extents.x), half_extents.x)
        clamped_y == clamp(delta.y, RNeg(half_extents.y), half_extents.y)
        closest_point == VAdd(rect_center, Vec(clamped_x, clamped_y))
        collision_vector == VSub(circle_center, closest_point)
        distance_sq == norm_squared(collision_vector)
        radius_sq == RMul(radius, radius)
    IN  IF RLt(distance_sq, radius_sq) /\ GtEps(distance_sq, 12)
        THEN LET distance == sqrt(distance_sq)
                 normal == VDivS(collision_vector, distance)
             IN  Some(Collision(circle_idx, rect_idx, normal))
        ELSE None

\* the Rectangle-then-Circle arm with the normal turned round
RectCircleArm_Flipped(body1, body2, idx1, idx2) ==
    LET r == calculate_circle_rectangle_collision(body2, body1, idx2, idx1,
                 body2.shape.radius, body1.shape.width, body1.shape.height)
    IN  IF r = None THEN None
        ELSE Some(Collision(idx1, idx2, VScale(r[1].normal, <<-1, 1>>)))

\* the Rectangle-then-Circle arm with the indices left as the helper returned
\* them, the circle's first
RectCircleArm_IndicesNotPutBack(body1, body2, idx1, idx2) ==
    calculate_circle_rectangle_collision(body2, body1, idx2, idx1,
        body2.shape.radius, body1.shape.width, body1.shape.height)

\* the Rectangle-then-Circle arm: computed as Circle-Rectangle, indices put back,
\* the normal left as computed
RectCircleArm(body1, body2, idx1, idx2) ==
    LET r == calculate_circle_rectangle_collision(body2, body1, idx2, idx1,
                 body2.shape.radius, body1.shape.width, body1.shape.height)
    IN  IF r = None THEN None
        ELSE Some([r[1] EXCEPT !.body_a = idx1, !.body_b = idx2])

CircleCircleArm(body1, body2, idx1, idx2) ==
    LET diff == VSub(body2.position, body1.position)
        distance == norm(diff)
        min_distance == RAdd(body1.shape.radius, body2.shape.radius)
    IN  IF RLt(distance, min_distance) /\ GtEps(distance, 10)
        THEN Some(Collision(idx1, idx2, VDivS(diff, distance)))
        ELSE None

\* the per-axis overlap of two axis-aligned rectangles
RectOverlap(body1, body2) ==
    LET half_size1 == Vec(RDiv(body1.shape.width, Two), RDiv(body1.shape.height, Two))
        half_size2 == Vec(RDiv(body2.shape.width, Two), RDiv(body2.shape.height, Two))
        diff == VSub(body2.position, body1.position)
        abs_diff == Vec(RAbs(diff.x), RAbs(diff.y))
    IN  VSub(VAdd(half_size1, half_size2), abs_diff)

\* RectRectArm with a tie of the overlaps resolved along x
RectRectArm_TieOnX(body1, body2, idx1, idx2) ==
    LET diff == VSub(body2.position, body1.position)
        overlap == RectOverlap(body1, body2)
    IN  IF RLt(Zero, overlap.x) /\ RLt(Zero, overlap.y)
        THEN LET normal == IF RLe(overlap.x, overlap.y)
                           THEN Vec(signum(diff.x), Zero)
                           ELSE Vec(Zero, signum(diff.y))
             IN  Some(Collision(idx1, idx2, normal))
        ELSE None

RectRectArm(body1, body2, idx1, idx2) ==
    LET diff == VSub(body2.position, body1.position)
        overlap == RectOverlap(body1, body2)
    IN  IF RLt(Zero, overlap.x) /\ RLt(Zero, overlap.y)
        THEN LET normal == IF RLt(overlap.x, overlap.y)
                           THEN Vec(signum(diff.x), Zero)
                           ELSE Vec(Zero, signum(diff.y))
             IN  Some(Collision(idx1, idx2, normal))
        ELSE None

check_collision(body_a, body_b, index_a, index_b) ==
    LET body1 == IF index_a < index_b THEN body_a ELSE body_b
        body2 == IF index_a < index_b THEN body_b ELSE body_a
        idx1 == IF index_a < index_b THEN index_a ELSE index_b
        idx2 == IF index_a < index_b THEN index_b ELSE index_a
    IN  CASE body1.shape.kind = "Circle" /\ body2.shape.kind = "Circle" ->
                CircleCircleArm(body1, body2, idx1, idx2)
          [] body1.shape.kind = "Rectangle" /\ body2.shape.kind = "Rectangle" ->
                RectRectArm(body1, body2, idx1, idx2)
          [] body1.shape.kind = "Circle" /\ body2.shape.kind = "Rectangle" ->
                calculate_circle_rectangle_collision(body1, body2, idx1, idx2,
                    body1.shape.radius, body2.shape.width, body2.shape.height)
          [] body1.shape.kind = "Rectangle" /\ body2.shape.kind = "Circle" ->
                RectCircleArm(body1, body2, idx1, idx2)

\* DetectFrom without the skip of Static-Static pairs
RECURSIVE DetectFrom_NoSkip(_, _, _)
DetectFrom_NoSkip(bs, i, j) ==
    IF i >= Len(bs) THEN <<>>
    ELSE IF j >= Len(bs) THEN DetectFrom_NoSkip(bs, i + 1, i + 2)
    ELSE check_collision(bs[i + 1], bs[j + 1], i, j) \o DetectFrom_NoSkip(bs, i, j + 1)

\* the loops of detect_collisions from pair (i, j) on, 0-based, i < j
RECURSIVE DetectFrom(_, _, _)
DetectFrom(bs, i, j) ==
    IF i >= Len(bs) THEN <<>>
    ELSE IF j >= Len(bs) THEN DetectFrom(bs, i + 1, i + 2)
    ELSE LET body_a == bs[i + 1]
             body_b == bs[j + 1]
         IN  IF body_a.body_type = "Static" /\ body_b.body_type = "Static"
             THEN DetectFrom(bs, i, j + 1)
             ELSE check_collision(body_a, body_b, i, j) \o DetectFrom(bs, i, j + 1)

detect_collisions(bs) == DetectFrom(bs, 0, 1)

\* ------------------------------------------------------------------------
\* collisions.rs: resolution
\* ------------------------------------------------------------------------

\* inverse mass: 0 for static bodies
inv_mass(body) == IF body.body_type = "Static" THEN Zero ELSE RDiv(One, body.mass)

\* SubImpulse with the impulse added
SubImpulse_Added(body, impulse, inv) ==
    IF body.body_type = "Dynamic"
    THEN [body EXCEPT !.velocity = VAdd(body.velocity, VScale(impulse, inv))]
    ELSE body

\* body_a.velocity -= impulse * inv_mass_a, for a Dynamic body_a
SubImpulse(body, impulse, inv) ==
    IF body.body_type = "Dynamic"
    THEN [body EXCEPT !.velocity = VSub(body.velocity, VScale(impulse, inv))]
    ELSE body

\* AddImpulse that pushes the body along the impulse as well
AddImpulse_Positional(body, impulse, inv) ==
    IF body.body_type = "Dynamic"
    THEN [body EXCEPT !.velocity = VAdd(body.velocity, VScale(impulse, inv)),
                      !.position = VAdd(body.position, VScale(impulse, inv))]
    ELSE body

\* AddImpulse with the inverse mass left out
AddImpulse_NoInvMass(body, impulse, inv) ==
    IF body.body_type = "Dynamic"
    THEN [body EXCEPT !.velocity = VAdd(body.velocity, impulse)]
    ELSE body

\* body_b.velocity += impulse * inv_mass_b, for a Dynamic body_b
AddImpulse(body, impulse, inv) ==
    IF body.body_type = "Dynamic"
    THEN [body EXCEPT !.velocity = VAdd(body.velocity, VScale(impulse, inv))]
    ELSE body

\* friction_impulse without the clamp to the static friction limit
friction_impulse_Unclamped(body_a, body_b, normal, impulse_scalar, total_inv_mass) ==
    LET relative_velocity_friction == VSub(body_b.velocity, body_a.velocity)
        velocity_normal_comp == VScale(normal, dot(relative_velocity_friction, normal))
        velocity_tangent_comp == VSub(relative_velocity_friction, velocity_normal_comp)
        tangential_speed == norm(velocity_tangent_comp)
    IN  IF GtEps(tangential_speed, 7)
        THEN LET tangent_direction == VDivS(velocity_tangent_comp, tangential_speed)
                 jt == RDiv(RNeg(tangential_speed), total_inv_mass)
             IN  VScale(tangent_direction, jt)
        ELSE zeros

\* the friction impulse vector, from the velocities left by the normal impulse;
\* zeros when the tangential speed is within the tolerance (no impulse applied)
friction_impulse(body_a, body_b, normal, impulse_scalar, total_inv_mass) ==
    LET relative_velocity_friction == VSub(body_b.velocity, body_a.velocity)
        velocity_normal_comp == VScale(normal, dot(relative_velocity_friction, normal))
        velocity_tangent_comp == VSub(relative_velocity_friction, velocity_normal_comp)
        tangential_speed == norm(velocity_tangent_comp)
    IN  IF GtEps(tangential_speed, 7)
        THEN LET tangent_direction == VDivS(velocity_tangent_comp, tangential_speed)
                 jt == RDiv(RNeg(tangential_speed), total_inv_mass)
                 mu_static == RDiv(RAdd(body_a.material.friction,
                                        body_b.material.friction), Two)
                 max_friction_impulse == RMul(mu_static, RAbs(impulse_scalar))
                 friction_impulse_scalar ==
                     clamp(jt, RNeg(max_friction_impulse), max_friction_impulse)
             IN  VScale(tangent_direction, friction_impulse_scalar)
        ELSE zeros

\* the relative velocity of the pair along the record's normal
velocity_along_normal(body_a, body_b, normal) ==
    dot(VSub(body_b.velocity, body_a.velocity), normal)

\* ResolvePair without the skip of separating pairs
ResolvePair_SeparatingResolved(body_a, body_b, normal) ==
    LET van == velocity_along_normal(body_a, body_b, normal)
        restitution == RDiv(RAdd(body_a.material.restitution,
                                 body_b.material.restitution), Two)
        inv_mass_a == inv_mass(body_a)
        inv_mass_b == inv_mass(body_b)
        total_inv_mass == RAdd(inv_mass_a, inv_mass_b)
    IN  IF body_a.body_type = "Static" /\ body_b.body_type = "Static"
        THEN <<body_a, body_b>>
        ELSE IF total_inv_mass = Zero THEN <<body_a, body_b>>
        ELSE LET j == RMul(RNeg(RAdd(One, restitution)), van)
                 impulse_scalar == RDiv(j, total_inv_mass)
                 impulse == VScale(normal, impulse_scalar)
                 a1 == SubImpulse(body_a, impulse, inv_mass_a)
                 b1 == AddImpulse(body_b, impulse, inv_mass_b)
                 fi == friction_impulse(a1, b1, normal, impulse_scalar, total_inv_mass)
             IN  <<SubImpulse(a1, fi, inv_mass_a), AddImpulse(b1, fi, inv_mass_b)>>

\* the body of the loop of resolve_collisions: the pair <<body_a, body_b>> after
\* one record has been processed
ResolvePair(body_a, body_b, normal) ==
    LET van == velocity_along_normal(body_a, body_b, normal)
        restitution == RDiv(RAdd(body_a.material.restitution,
                                 body_b.material.restitution), Two)
        inv_mass_a == inv_mass(body_a)
        inv_mass_b == inv_mass(body_b)
        total_inv_mass == RAdd(inv_mass_a, inv_mass_b)
    IN  IF body_a.body_type = "Static" /\ body_b.body_type = "Static"
        THEN <<body_a, body_b>>
        ELSE IF RLt(Zero, van) THEN <<body_a, body_b>>
        ELSE IF total_inv_mass = Zero THEN <<body_a, body_b>>
        ELSE LET j == RMul(RNeg(RAdd(One, restitution)), van)
                 impulse_scalar == RDiv(j, total_inv_mass)
                 impulse == VScale(normal, impulse_scalar)
                 a1 == SubImpulse(body_a, impulse, inv_mass_a)
                 b1 == AddImpulse(body_b, impulse, inv_mass_b)
                 fi == friction_impulse(a1, b1, normal, impulse_scalar, total_inv_mass)
             IN  <<SubImpulse(a1, fi, inv_mass_a), AddImpulse(b1, fi, inv_mass_b)>>

\* ResolveOne with the two bodies fetched in each other's place
ResolveOne_Swapped(bs, collision) ==
    LET r == ResolvePair(bs[collision.body_b + 1], bs[collision.body_a + 1],
                         collision.normal)
    IN  [bs EXCEPT ![collision.body_a + 1] = r[1], ![collision.body_b + 1] = r[2]]

\* one record applied to the body sequence
ResolveOne(bs, collision) ==
    LET r == ResolvePair(bs[collision.body_a + 1], bs[collision.body_b + 1],
                         collision.normal)
    IN  [bs EXCEPT ![collision.body_a + 1] = r[1], ![collision.body_b + 1] = r[2]]

RECURSIVE ResolveFrom(_, _, _)
ResolveFrom(bs, collisions, k) ==
    IF k > Len(collisions) THEN bs
    ELSE ResolveFrom(ResolveOne(bs, collisions[k]), collisions, k + 1)

resolve_collisions(bs, collisions) == ResolveFrom(bs, collisions, 1)

\* ------------------------------------------------------------------------
\* mod.rs: World
\* ------------------------------------------------------------------------

SOLVER_ITERATIONS == 10

\* World::new's gravity, 0.0, -9.81
DefaultGravity == Vec(Zero, <<-981, 100>>)

\* ResetAndGravity with the force accumulator left as it was
ResetAndGravity_NoReset(body, g) ==
    IF body.body_type = "Dynamic"
    THEN apply_force(body, VScale(g, body.mass))
    ELSE body

\* step 1 and 2 of World::update on one body: force reset, then gravity
ResetAndGravity(body, g) ==
    LET cleared == [body EXCEPT !.force = zeros]
    IN  IF cleared.body_type = "Dynamic"
        THEN apply_force(cleared, VScale(g, cleared.mass))
        ELSE cleared

\* Integrate with each body integrated before its force is reset
Integrate_BeforeReset(bs, g, dt) ==
    [i \in 1..Len(bs) |-> ResetAndGravity(Body_update(bs[i], dt), g)]

\* steps 1 to 3: every body reset, loaded with gravity and integrated
Integrate(bs, g, dt) ==
    [i \in 1..Len(bs) |-> Body_update(ResetAndGravity(bs[i], g), dt)]

\* Solve with resolve_collisions called in the pass that detects nothing too
RECURSIVE Solve_ResolvesEmptyPass(_, _, _, _)
Solve_ResolvesEmptyPass(bs, passes, resolves, last) ==
    IF passes >= SOLVER_ITERATIONS
    THEN [bodies |-> bs, collisions |-> last,
          detects |-> passes, resolves |-> resolves]
    ELSE LET collisions == detect_collisions(bs)
         IN  IF collisions = <<>>
             THEN [bodies |-> resolve_collisions(bs, collisions), collisions |-> collisions,
                   detects |-> passes + 1, resolves |-> resolves + 1]
             ELSE Solve_ResolvesEmptyPass(resolve_collisions(bs, collisions), passes + 1,
                                          resolves + 1, collisions)

\* step 4 from the pass after `passes` on; `last` is the latest detection's
\* records.  The result: the bodies, the latest detection's records, and the
\* numbers of detections and resolutions that ran
RECURSIVE Solve(_, _, _, _)
Solve(bs, passes, resolves, last) ==
    IF passes >= SOLVER_ITERATIONS
    THEN [bodies |-> bs, collisions |-> last,
          detects |-> passes, resolves |-> resolves]
    ELSE LET collisions == detect_collisions(bs)
         IN  IF collisions = <<>>
             THEN [bodies |-> bs, collisions |-> collisions,
                   detects |-> passes + 1, resolves |-> resolves]
             ELSE Solve(resolve_collisions(bs, collisions), passes + 1,
                        resolves + 1, collisions)

World_update(bs, g, dt) == Solve(Integrate(bs, g, dt), 0, 0, <<>>)

\* ------------------------------------------------------------------------
\* The state machine
\* ------------------------------------------------------------------------

VARIABLES
    bodies,      \* World.bodies
    gravity,     \* World.gravity
    created,     \* the bodies as they were when added to the world
    pre,         \* World.bodies before the latest operation
    collisions,  \* the records of the latest detection, <<>> if the latest
                 \* operation ran none
    solver,      \* the detections and resolutions the latest operation ran
    op,          \* the latest operation: its name, body index and dt
    steps        \* operations so far

vars == <<bodies, gravity, created, pre, collisions, solver, op, steps>>

\* the number of operations a run performs
MaxSteps == 3

Op(name, i, dt) == [name |-> name, i |-> i, dt |-> dt]
Ran(detects, resolves) == [detects |-> detects, resolves |-> resolves]

InitWith(W, G) ==
    /\ bodies \in W
    /\ gravity \in G
    /\ created = bodies
    /\ pre = bodies
    /\ collisions = <<>>
    /\ solver = Ran(0, 0)
    /\ op = Op("new", -1, Zero)
    /\ steps = 0

\* an operation on the bodies of the world that runs no detection
BodyStep(name, i, dt, bs) ==
    /\ steps < MaxSteps
    /\ bodies' = bs
    /\ pre' = bodies
    /\ collisions' = <<>>
    /\ solver' = Ran(0, 0)
    /\ op' = Op(name, i, dt)
    /\ steps' = steps + 1
    /\ UNCHANGED <<gravity, created>>

\* world.gravity = g
SetGravity(g) ==
    /\ steps < MaxSteps
    /\ gravity' = g
    /\ pre' = bodies
    /\ collisions' = <<>>
    /\ solver' = Ran(0, 0)
    /\ op' = Op("set_gravity", -1, Zero)
    /\ steps' = steps + 1
    /\ UNCHANGED <<bodies, created>>

\* world.bodies[i].velocity = v, the overwrite the callers make on Dynamic bodies
SetVelocity(i, v) ==
    /\ bodies[i + 1].body_type = "Dynamic"
    /\ BodyStep("set_velocity", i, Zero, [bodies EXCEPT ![i + 1].velocity = v])

\* world.bodies[i].acceleration = a, as test_dynamic_body_update overwrites it
SetAcceleration(i, a) ==
    /\ bodies[i + 1].body_type = "Dynamic"
    /\ BodyStep("set_acceleration", i, Zero, [bodies EXCEPT ![i + 1].acceleration = a])

\* world.bodies[i].apply_force(f)
ApplyForce(i, f) ==
    BodyStep("apply_force", i, Zero,
             [bodies EXCEPT ![i + 1] = apply_force(bodies[i + 1], f)])

\* world.bodies[i].update(dt)
BodyUpdate(i, dt) ==
    BodyStep("body_update", i, dt,
             [bodies EXCEPT ![i + 1] = Body_update(bodies[i + 1], dt)])

\* world.update(dt)
WorldUpdate(dt) ==
    /\ steps < MaxSteps
    /\ \E r \in {World_update(bodies, gravity, dt)} :
           /\ bodies' = r.bodies
           /\ collisions' = r.collisions
           /\ solver' = Ran(r.detects, r.resolves)
    /\ pre' = bodies
    /\ op' = Op("world_update", -1, dt)
    /\ steps' = steps + 1
    /\ UNCHANGED <<gravity, created>>

\* one detect_collisions + resolve_collisions pass, as the unit tests run it
DetectResolve ==
    /\ steps < MaxSteps
    /\ \E cs \in {detect_collisions(bodies)} :
           /\ bodies' = resolve_collisions(bodies, cs)
           /\ collisions' = cs
    /\ solver' = Ran(1, 1)
    /\ pre' = bodies
    /\ op' = Op("detect_resolve", -1, Zero)
    /\ steps' = steps + 1
    /\ UNCHANGED <<gravity, created>>

\* world.add_body(body)
AddBody(body) ==
    /\ steps < MaxSteps
    /\ bodies' = Append(bodies, body)
    /\ created' = Append(created, body)
    /\ pre' = bodies
    /\ collisions' = <<>>
    /\ solver' = Ran(0, 0)
    /\ op' = Op("add_body", Len(bodies), Zero)
    /\ steps' = steps + 1
    /\ UNCHANGED gravity

\* world.update(dt) in a run that steps with one fixed dt
Tick(dt) ==
    /\ op.name = "world_update" => op.dt = dt
    /\ WorldUpdate(dt)

Indices == 0..(Len(bodies) - 1)

\* ------------------------------------------------------------------------
\* Spec: a world of two bodies on a vertical line, under every operation
\* ------------------------------------------------------------------------

DtSet == {<<1, 2>>}
ForceSet == {IV(0, 3)}
VelocitySet == {IV(0, -1), IV(0, 1)}
GravitySet == {zeros, IV(0, -2)}
PositionSet == {IV(0, 0), IV(0, 3)}
TypeSet == {"Static", "Dynamic"}

\* bodies as the constructors make them: the shapes and materials of the
\* source's tests (circle of radius 2, rectangle 4 x 4)
Templates ==
    {new_circle(p, Two, IF t = "Static" THEN stone ELSE rubber, t) :
        p \in PositionSet, t \in TypeSet}
    \cup
    {new_rectangle(p, <<4, 1>>, <<4, 1>>, IF t = "Static" THEN stone ELSE wood, t) :
        p \in PositionSet, t \in TypeSet}

\* World::new followed by two add_body calls, the bodies at different places
Worlds == {w \in Templates \X Templates : w[1].position # w[2].position}

Init == InitWith(Worlds, GravitySet)

Next ==
    \/ \E g \in GravitySet : SetGravity(g)
    \/ \E i \in Indices, v \in VelocitySet : SetVelocity(i, v)
    \/ \E i \in Indices, f \in ForceSet : ApplyForce(i, f)
    \/ \E i \in Indices, dt \in DtSet : BodyUpdate(i, dt)
    \/ \E dt \in DtSet : WorldUpdate(dt)
    \/ DetectResolve

Spec == Init /\ [][Next]_vars

IsStatic(b) == b.body_type = "Static"
IsDynamic(b) == b.body_type = "Dynamic"

\* a record of the latest detection that pairs a Static with a Dynamic body
MixedRecord(c) ==
    IsStatic(bodies[c.body_a + 1]) # IsStatic(bodies[c.body_b + 1])

\* C1: every Static body has the position, velocity and acceleration it was
\* created with, after any sequence of apply_force, Body::update and
\* World::update calls, contacts with Dynamic bodies included.
C1_StaticBodiesNeverMove ==
    \A i \in 1..Len(bodies) :
        IsStatic(bodies[i]) =>
            /\ bodies[i].position = created[i].position
            /\ bodies[i].velocity = created[i].velocity
            /\ bodies[i].acceleration = created[i].acceleration

\* a World::update has just resolved a contact between a Static and a Dynamic
\* body, and changed the Dynamic body's velocity doing so
C1_Witness ==
    /\ op.name = "world_update"
    /\ solver.resolves > 0
    /\ \E k \in 1..Len(collisions) :
          /\ MixedRecord(collisions[k])
          /\ \E i \in 1..Len(bodies) :
                /\ IsDynamic(bodies[i])
                /\ bodies[i].velocity # Integrate(pre, gravity, op.dt)[i].velocity

\* ------------------------------------------------------------------------
\* SpecContact: two bodies placed in or out of contact in the plane, resolved
\* by single detect_collisions + resolve_collisions passes
\* ------------------------------------------------------------------------

\* where the second body is, the first being at the origin
ContactOffsets ==
    {IV(0, 3), IV(2, 0), IV(0, -3), IV(-2, 0),
     IV(3, 4), IV(-3, 4), IV(3, -4), IV(-3, -4), IV(9, 0)}

\* a perfectly elastic material, as test_collision_resolution makes it
elastic == Material_new(<<3, 10>>, One, <<7, 10>>)

MaterialsOf(t) == IF t = "Static" THEN {stone} ELSE {elastic, rubber}

\* the bodies of a contact scenario at position p: circle of radius 3 or
\* rectangle 3 x 4 (a circle at offset (3, 4) touches its corner at distance 5/2)
ContactBodies(p) ==
    UNION {UNION {{new_circle(p, <<3, 1>>, m, t),
                   new_rectangle(p, <<3, 1>>, <<4, 1>>, m, t)} : m \in MaterialsOf(t)} :
           t \in TypeSet}

\* the velocities given to a body before it is added: none for a Static one
VelocitiesOf(b, off) ==
    IF IsStatic(b) THEN {zeros} ELSE {zeros, off, VScale(off, <<-1, 1>>)}

ContactWorlds ==
    UNION {UNION {{<<[a EXCEPT !.velocity = va], [b EXCEPT !.velocity = vb]>> :
                      va \in VelocitiesOf(a, off), vb \in VelocitiesOf(b, off)} :
                  a \in ContactBodies(zeros), b \in ContactBodies(off)} :
           off \in ContactOffsets}

InitContact == InitWith(ContactWorlds, {zeros})

NextContact == DetectResolve

SpecContact == InitContact /\ [][NextContact]_vars

Ran1 == op.name = "detect_resolve"

\* C2: every record of a detection carries a normal that points from body_a
\* (the lower index) toward body_b (the higher index), whatever the shapes.
C2_NormalPointsFromAToB ==
    \A k \in 1..Len(collisions) :
        LET c == collisions[k]
            a_to_b == VSub(bodies[c.body_b + 1].position, bodies[c.body_a + 1].position)
        IN  RLt(Zero, dot(c.normal, a_to_b))

\* the Static and the Dynamic body of a mixed record, as indices into bodies
StaticOf(c) == IF IsStatic(bodies[c.body_a + 1]) THEN c.body_a + 1 ELSE c.body_b + 1
DynamicOf(c) == IF IsStatic(bodies[c.body_a + 1]) THEN c.body_b + 1 ELSE c.body_a + 1

\* the contact axis of a record, directed from the Static body's side to the
\* Dynamic body's side
AwayFromStatic(c) ==
    LET s_to_d == VSub(bodies[DynamicOf(c)].position, bodies[StaticOf(c)].position)
    IN  IF RLt(Zero, dot(c.normal, s_to_d)) THEN c.normal
        ELSE VScale(c.normal, <<-1, 1>>)

AverageRestitution(c) ==
    RDiv(RAdd(bodies[c.body_a + 1].material.restitution,
              bodies[c.body_b + 1].material.restitution), Two)

\* C3: after one detect + resolve pass over a Static-Dynamic contact whose
\* Dynamic body was moving toward the Static one along the contact axis, with a
\* positive average restitution, the Dynamic body moves away along that axis
\* and the Static body's position and velocity are as before.
C3_DynamicBouncesOffStatic ==
    Ran1 =>
        \A k \in 1..Len(collisions) :
            LET c == collisions[k]
                s == StaticOf(c)
                d == DynamicOf(c)
                out == AwayFromStatic(c)
            IN  (/\ MixedRecord(c)
                 /\ RLt(dot(pre[d].velocity, out), Zero)
                 /\ RLt(Zero, AverageRestitution(c)))
                =>
                (/\ RLt(Zero, dot(bodies[d].velocity, out))
                 /\ bodies[s].position = pre[s].position
                 /\ bodies[s].velocity = pre[s].velocity)

IsCircle(b) == b.shape.kind = "Circle"
IsRectangle(b) == b.shape.kind = "Rectangle"

Normals(cs) == [k \in 1..Len(cs) |-> cs[k].normal]

\* the same two bodies added in the other order
Swapped(bs) == <<bs[2], bs[1]>>

CircleAndRectangle ==
    /\ Len(bodies) = 2
    /\ IsCircle(bodies[1]) # IsCircle(bodies[2])

HeadOn(bs) ==
    LET d == VSub(bs[2].position, bs[1].position)
        cross(u, v) == RSub(RMul(u.x, v.y), RMul(u.y, v.x))
    IN  /\ Len(bs) = 2
        /\ IsCircle(bs[1]) /\ IsCircle(bs[2])
        /\ IsDynamic(bs[1]) /\ IsDynamic(bs[2])
        /\ bs[1].mass = bs[2].mass
        /\ bs[1].material.restitution = One /\ bs[2].material.restitution = One
        /\ cross(bs[1].velocity, d) = Zero /\ cross(bs[2].velocity, d) = Zero
        /\ RLt(Zero, dot(bs[1].velocity, d))
        /\ RLt(dot(bs[2].velocity, d), Zero)

\* C7: two overlapping Dynamic circles of equal mass with restitution 1.0,
\* approaching head-on along the line through their centres, have exchanged
\* their velocities after one detect + resolve pass.
C7_HeadOnCirclesExchangeVelocities ==
    (Ran1 /\ HeadOn(pre) /\ collisions # <<>>) =>
        /\ bodies[1].velocity = pre[2].velocity
        /\ bodies[2].velocity = pre[1].velocity

\* a head-on pass happened on centres not aligned with an axis
C7_Witness ==
    /\ Ran1
    /\ HeadOn(pre)
    /\ collisions # <<>>
    /\ collisions[1].normal.x # Zero
    /\ collisions[1].normal.y # Zero
    /\ bodies[1].velocity = pre[2].velocity
    /\ bodies[1].velocity # pre[1].velocity

\* ------------------------------------------------------------------------
\* SpecBody: one body under the operations of Body
\* ------------------------------------------------------------------------

AccelerationSet == {Vec(<<-1, 1>>, <<1, 2>>)}
BodyDtSet == {<<1, 2>>, <<1, 10>>}

InitBody == InitWith({<<b>> : b \in Templates}, {zeros})

NextBody ==
    \/ \E v \in VelocitySet \cup {IV(2, 1)} : SetVelocity(0, v)
    \/ \E a \in AccelerationSet : SetAcceleration(0, a)
    \/ \E f \in ForceSet : ApplyForce(0, f)
    \/ \E dt \in BodyDtSet : BodyUpdate(0, dt)

SpecBody == InitBody /\ [][NextBody]_vars

\* C9: Body::update(dt) on a Dynamic body holding velocity v, acceleration a
\* and no applied force leaves velocity v + a*dt, position p + (v + a*dt)*dt
\* and a zero acceleration field.
C9_UpdateIntegratesHeldAcceleration ==
    (/\ op.name = "body_update"
     /\ IsDynamic(pre[1])
     /\ pre[1].force = zeros)
    =>
    LET v == VAdd(pre[1].velocity, VScale(pre[1].acceleration, op.dt))
    IN  /\ bodies[1].velocity = v
        /\ bodies[1].position = VAdd(pre[1].position, VScale(v, op.dt))
        /\ bodies[1].acceleration = zeros

\* ------------------------------------------------------------------------
\* SpecFall: one Dynamic body alone in a world, stepped with a fixed dt
\* ------------------------------------------------------------------------

FallDtSet == {<<1, 2>>, <<1, 60>>}
FallGravitySet == {DefaultGravity, IV(1, -2)}

\* Dynamic bodies of several masses, with and without an initial velocity
FallBodies ==
    {[b EXCEPT !.velocity = v] :
        b \in {new_circle(IV(0, 100), One, wood, "Dynamic"),
               new_circle(IV(0, 100), Two, rubber, "Dynamic"),
               new_rectangle(IV(5, 0), <<4, 1>>, Two, stone, "Dynamic"),
               new_rectangle(IV(5, 0), Two, One, wood, "Dynamic")},
        v \in {zeros, IV(2, 1), IV(0, -3)}}

InitFall == InitWith({<<b>> : b \in FallBodies}, FallGravitySet)

NextFall == \E dt \in FallDtSet : Tick(dt)

SpecFall == InitFall /\ [][NextFall]_vars

\* n as a rational
N(n) == <<n, 1>>

\* C10: a single Dynamic body, after n World::update(dt) calls with one dt,
\* has velocity v0 + n*dt*gravity whatever its mass, and position
\* p0 + n*dt*v0 + gravity*dt*dt*n*(n+1)/2.
C10_SingleBodyClosedForm ==
    (op.name = "world_update" /\ Len(bodies) = 1 /\ IsDynamic(bodies[1])) =>
        LET n == steps
            dt == op.dt
            v0 == created[1].velocity
            p0 == created[1].position
        IN  /\ bodies[1].velocity = VAdd(v0, VScale(gravity, RMul(N(n), dt)))
            /\ bodies[1].position =
                  VAdd(VAdd(p0, VScale(v0, RMul(N(n), dt))),
                       VScale(gravity, RMul(RMul(dt, dt), <<(n * (n + 1)) \div 2, 1>>)))

\* three ticks under gravity, of a body of mass other than 1 that started moving
C10_Witness ==
    /\ op.name = "world_update"
    /\ steps = 3
    /\ bodies[1].mass # One
    /\ created[1].velocity # zeros
    /\ gravity = DefaultGravity
    /\ bodies[1].velocity # created[1].velocity

\* ------------------------------------------------------------------------
\* SpecRest: a Dynamic rectangle dropped on a larger Static one
\* ------------------------------------------------------------------------

\* ground 8 x 2 at the origin, its top at y = 1; a 2 x 2 box whose bottom is at
\* the ground's top or 1/2 above it; either may be added first
RestWorlds ==
    UNION {{<<new_rectangle(IV(0, 0), <<8, 1>>, Two, stone, "Static"), box>>,
            <<box, new_rectangle(IV(0, 0), <<8, 1>>, Two, stone, "Static")>>} :
           box \in {new_rectangle(Vec(x, y), Two, Two, m, "Dynamic") :
                       x \in {Zero, One}, y \in {Two, <<5, 2>>}, m \in {wood, rubber, stone}}}

InitRest == InitWith(RestWorlds, {IV(0, -2), IV(0, -10)})

NextRest == \E dt \in {<<1, 2>>, <<1, 4>>} : Tick(dt)

SpecRest == InitRest /\ [][NextRest]_vars

\* the depth by which two rectangles overlap vertically, 0 when they are apart
Penetration(bs) ==
    LET overlap == RectOverlap(bs[1], bs[2])
    IN  IF RLt(Zero, overlap.x) /\ RLt(Zero, overlap.y) THEN overlap.y ELSE Zero

\* C5: once the Dynamic rectangle rests on the Static one (the previous tick
\* ended in a resolved contact), a World::update does not deepen its
\* penetration.
C5_RestingPenetrationDoesNotGrow ==
    (op.name = "world_update" /\ RLt(Zero, Penetration(pre))) =>
        RLe(Penetration(bodies), Penetration(pre))

\* ------------------------------------------------------------------------
\* SpecIsolated: three Dynamic bodies in a row, frictionless, no gravity
\* ------------------------------------------------------------------------

\* frictionless materials, as test_multiple_body_interaction makes one; the
\* second is three times as dense and half as elastic
frictionless_light == Material_new(<<3, 10>>, One, Zero)
frictionless_heavy == Material_new(<<9, 10>>, <<1, 2>>, Zero)
FrictionlessSet == {frictionless_light, frictionless_heavy}

\* circles move along the row only; rectangles also across it
IsolatedWorlds ==
    {<<[new_circle(IV(0, 0), Two, m1, "Dynamic") EXCEPT !.velocity = IV(vx, 0)],
       new_circle(IV(3, 0), Two, m2, "Dynamic"),
       [new_circle(IV(6, 0), Two, m3, "Dynamic") EXCEPT !.velocity = IV(-1, 0)]>> :
        m1 \in FrictionlessSet, m2 \in FrictionlessSet, m3 \in FrictionlessSet,
        vx \in {0, 2}}
    \cup
    {<<[new_rectangle(IV(0, 0), <<4, 1>>, <<4, 1>>, m1, "Dynamic")
           EXCEPT !.velocity = IV(2, vy)],
       new_rectangle(IV(3, 0), <<4, 1>>, <<4, 1>>, m2, "Dynamic"),
       [new_rectangle(IV(6, 1), <<4, 1>>, <<4, 1>>, m3, "Dynamic")
           EXCEPT !.velocity = IV(-1, 0)]>> :
        m1 \in FrictionlessSet, m2 \in FrictionlessSet, m3 \in FrictionlessSet,
        vy \in {0, 1}}

InitIsolated == InitWith(IsolatedWorlds, {zeros})

NextIsolated == \E dt \in DtSet : Tick(dt)

SpecIsolated == InitIsolated /\ [][NextIsolated]_vars

RECURSIVE MomentumFrom(_, _)
MomentumFrom(bs, i) ==
    IF i > Len(bs) THEN zeros
    ELSE VAdd(VScale(bs[i].velocity, bs[i].mass), MomentumFrom(bs, i + 1))

\* the sum over the bodies of mass times velocity
Momentum(bs) == MomentumFrom(bs, 1)

Isolated(bs) ==
    /\ \A i \in 1..Len(bs) : IsDynamic(bs[i]) /\ bs[i].material.friction = Zero
    /\ gravity = zeros

\* C6: in a world of Dynamic bodies with zero friction and zero gravity, the
\* total momentum after a World::update equals the total momentum before it.
C6_MomentumConserved ==
    (op.name = "world_update" /\ Isolated(pre)) => Momentum(bodies) = Momentum(pre)

\* a tick has resolved two contacts at once and changed velocities
C6_Witness ==
    /\ op.name = "world_update"
    /\ Isolated(pre)
    /\ Len(collisions) >= 2
    /\ solver.resolves > 0
    /\ \E i \in 1..Len(bodies) : bodies[i].velocity # pre[i].velocity
    /\ bodies[1].mass # bodies[2].mass

\* ------------------------------------------------------------------------
\* SpecCtor: a world filled through the constructors, any dimensions
\* ------------------------------------------------------------------------

DimensionSet == {<<-1, 1>>, Zero, Two}
DensitySet == {<<-1, 2>>, Zero, <<1, 2>>}

NextCtor ==
    \/ \E r \in DimensionSet, d \in DensitySet :
          AddBody(new_circle(IV(0, 0), r, Material_new(d, <<1, 2>>, <<1, 2>>), "Dynamic"))
    \/ \E w \in DimensionSet, h \in {Zero, Two}, d \in DensitySet :
          AddBody(new_rectangle(IV(0, 0), w, h, Material_new(d, <<1, 2>>, <<1, 2>>),
                                "Static"))

InitCtor == InitWith({<<>>}, {DefaultGravity})

SpecCtor == InitCtor /\ [][NextCtor]_vars

PositiveShape(shape) ==
    IF shape.kind = "Circle" THEN RLt(Zero, shape.radius)
    ELSE RLt(Zero, shape.width) /\ RLt(Zero, shape.height)

\* C8: construction rejects a non-positive radius, width, height or density,
\* so every body of a World has positive dimensions, density and mass.
C8_NoBodyWithNonPositiveMass ==
    \A i \in 1..Len(bodies) :
        /\ PositiveShape(bodies[i].shape)
        /\ RLt(Zero, bodies[i].material.density)
        /\ RLt(Zero, bodies[i].mass)

\* ------------------------------------------------------------------------
\* The force accumulator across ticks (under Spec)
\* ------------------------------------------------------------------------

\* C11: after every World::update, whatever forces were applied or left over
\* before it, each Dynamic body's force accumulator is gravity * mass of that
\* tick alone and each Static body's accumulator is zero.
C11_ForceIsThisTicksGravityOnly ==
    op.name = "world_update" =>
        \A i \in 1..Len(bodies) :
            bodies[i].force = IF IsDynamic(bodies[i])
                              THEN VScale(gravity, bodies[i].mass)
                              ELSE zeros

\* a World::update under gravity found a Dynamic body holding a force other
\* than that tick's gravity load (an applied force, or the load of a tick under
\* another gravity)
C11_Witness ==
    /\ op.name = "world_update"
    /\ gravity # zeros
    /\ \E i \in 1..Len(bodies) :
          /\ IsDynamic(pre[i])
          /\ pre[i].force # zeros
          /\ pre[i].force # VScale(gravity, pre[i].mass)

\* ------------------------------------------------------------------------
\* SpecPairs: three bodies at rest, of any shape and type, the first two
\* overlapping and the third overlapping both or far from both, under single
\* detect_collisions + resolve_collisions passes
\* ------------------------------------------------------------------------

\* circle of radius 2 or rectangle 4 x 4 at x
PairBodies(x) ==
    {new_circle(IV(x, 0), Two, stone, "Static"),
     new_rectangle(IV(x, 0), <<4, 1>>, <<4, 1>>, stone, "Static"),
     new_circle(IV(x, 0), Two, rubber, "Dynamic"),
     new_rectangle(IV(x, 0), <<4, 1>>, <<4, 1>>, wood, "Dynamic")}

PairWorlds == PairBodies(0) \X PairBodies(2) \X (PairBodies(3) \cup PairBodies(9))

InitPairs == InitWith(PairWorlds, {zeros})

NextPairs == DetectResolve

SpecPairs == InitPairs /\ [][NextPairs]_vars

\* record c comes before record d in the order of the loops over (i, j)
PairBefore(c, d) ==
    \/ c.body_a < d.body_a
    \/ c.body_a = d.body_a /\ c.body_b < d.body_b

\* C12: no record of a detection pairs two Static bodies, overlapping or not;
\* the records are in the order of the pairs (i, j), i < j, each pair at most
\* once, and each is what check_collision answers for its pair.
C12_NoStaticStaticRecord ==
    Ran1 =>
        /\ \A k \in 1..Len(collisions) :
              LET c == collisions[k]
              IN  /\ ~(IsStatic(pre[c.body_a + 1]) /\ IsStatic(pre[c.body_b + 1]))
                  /\ check_collision(pre[c.body_a + 1], pre[c.body_b + 1],
                                     c.body_a, c.body_b) = Some(c)
        /\ \A k \in 1..(Len(collisions) - 1) :
              PairBefore(collisions[k], collisions[k + 1])

\* a detection over three bodies of which two are Static and overlap each
\* other, that reported both of their contacts with the third
C12_Witness ==
    /\ Ran1
    /\ Len(collisions) = 2
    /\ \E i \in 1..3, j \in 1..3 :
          /\ i < j
          /\ IsStatic(pre[i]) /\ IsStatic(pre[j])
          /\ check_collision(pre[i], pre[j], i - 1, j - 1) # None

\* ------------------------------------------------------------------------
\* The solver loop of World::update (under Spec)
\* ------------------------------------------------------------------------

\* C13: a World::update ends after between 1 and SOLVER_ITERATIONS passes with
\* one detection each; if its last detection found nothing, that pass ran no
\* resolution and every pass before it ran one; otherwise the whole budget was
\* used and every pass resolved.
C13_SolverRunsAtMostTenPasses ==
    op.name = "world_update" =>
        /\ solver.detects \in 1..SOLVER_ITERATIONS
        /\ IF collisions = <<>>
           THEN solver.resolves = solver.detects - 1
           ELSE /\ solver.detects = SOLVER_ITERATIONS
                /\ solver.resolves = SOLVER_ITERATIONS

\* a World::update has used its whole budget, resolving a contact that changed
\* a velocity
C13_Witness ==
    /\ op.name = "world_update"
    /\ solver = Ran(SOLVER_ITERATIONS, SOLVER_ITERATIONS)
    /\ collisions # <<>>
    /\ \E i \in 1..Len(bodies) : bodies[i].velocity # Integrate(pre, gravity, op.dt)[i].velocity

\* a World::update has stopped at its first pass, which detected nothing
C13_EarlyExit ==
    /\ op.name = "world_update"
    /\ solver = Ran(1, 0)
    /\ collisions = <<>>

\* ------------------------------------------------------------------------
\* The indices of the records (under SpecPairs)
\* ------------------------------------------------------------------------

\* the indexing of resolve_collisions on n bodies stays within its slices:
\* split_at_mut(body_a + 1), first[body_a], second[body_b - body_a - 1]
SplitInBounds(n, c) ==
    LET mid == c.body_a + 1
        second_index == c.body_b - c.body_a - 1
    IN  /\ mid <= n
        /\ c.body_a >= 0 /\ c.body_a < mid
        /\ second_index >= 0 /\ second_index < n - mid

\* C14: every record of a detection over n bodies has body_a < body_b < n,
\* whichever branch of check_collision made it, so that the split_at_mut
\* indexing of resolve_collisions on it reaches two distinct bodies in bounds.
C14_RecordIndicesOrderedInBounds ==
    Ran1 =>
        \A k \in 1..Len(collisions) :
            LET c == collisions[k]
            IN  /\ 0 <= c.body_a
                /\ c.body_a < c.body_b
                /\ c.body_b < Len(pre)
                /\ SplitInBounds(Len(pre), c)

\* a detection has reported a contact of a rectangle with a circle of higher
\* index, the branch that computes with the roles swapped
C14_Witness ==
    /\ Ran1
    /\ \E k \in 1..Len(collisions) :
          /\ IsRectangle(pre[collisions[k].body_a + 1])
          /\ IsCircle(pre[collisions[k].body_b + 1])
          /\ collisions[k].body_b = 2

\* ------------------------------------------------------------------------
\* SpecSlide: two bodies in contact that approach, separate or slide along
\* each other, under single detect_collisions + resolve_collisions passes
\* ------------------------------------------------------------------------

\* where the second body is, the first being at the origin: beside it, above
\* it, and along a 3-4-5 diagonal
SlideOffsets == {IV(3, 0), IV(0, 3), Vec(<<3, 2>>, Two)}

SlideVelocitySet == {zeros, IV(1, 2), IV(-1, -2)}

\* circle of radius 2 or rectangle 4 x 4 at p: Static of stone, or Dynamic of
\* three materials of which one is frictionless, at rest or moving
SlideBodies(p) ==
    {new_circle(p, Two, stone, "Static"),
     new_rectangle(p, <<4, 1>>, <<4, 1>>, stone, "Static")}
    \cup
    {[b EXCEPT !.velocity = v] :
        b \in UNION {{new_circle(p, Two, m, "Dynamic"),
                      new_rectangle(p, <<4, 1>>, <<4, 1>>, m, "Dynamic")} :
                     m \in {elastic, wood, frictionless_light}},
        v \in SlideVelocitySet}

SlideWorlds == UNION {SlideBodies(zeros) \X SlideBodies(off) : off \in SlideOffsets}

InitSlide == InitWith(SlideWorlds, {zeros})

NextSlide == DetectResolve

SpecSlide == InitSlide /\ [][NextSlide]_vars

\* the pass processed exactly one record
OneRecord == Ran1 /\ Len(collisions) = 1

\* the part of v across the normal n
Tangential(v, n) == VSub(v, VScale(n, dot(v, n)))

\* the relative velocity of the bodies of record c in bs, across c's normal
TangentialVelocity(bs, c) ==
    Tangential(VSub(bs[c.body_b + 1].velocity, bs[c.body_a + 1].velocity), c.normal)

\* C15: a record whose relative velocity along the normal,
\* (velocity_B - velocity_A) . normal, is strictly positive leaves the
\* velocities of both of its bodies as they were.
C15_SeparatingRecordSkipped ==
    OneRecord =>
        LET c == collisions[1]
        IN  RLt(Zero, velocity_along_normal(pre[c.body_a + 1], pre[c.body_b + 1], c.normal))
            => /\ bodies[c.body_a + 1].velocity = pre[c.body_a + 1].velocity
               /\ bodies[c.body_b + 1].velocity = pre[c.body_b + 1].velocity

\* a pass has skipped a record of two separating bodies with friction that
\* also slide along each other
C15_Witness ==
    /\ OneRecord
    /\ RLt(Zero, velocity_along_normal(pre[collisions[1].body_a + 1],
                                       pre[collisions[1].body_b + 1], collisions[1].normal))
    /\ TangentialVelocity(pre, collisions[1]) # zeros
    /\ RLt(Zero, pre[1].material.friction)
    /\ bodies = pre

\* the smaller of two numbers
RMin(a, b) == IF RLt(a, b) THEN a ELSE b

\* the record of the pass was resolved: not skipped as separating
Resolved(c) ==
    ~RLt(Zero, velocity_along_normal(pre[c.body_a + 1], pre[c.body_b + 1], c.normal))

\* the normal impulse scalar of the record: -(1 + restitution) * velAlongNormal
\* over the total inverse mass
NormalImpulseScalar(c) ==
    LET a == pre[c.body_a + 1]
        b == pre[c.body_b + 1]
    IN  RDiv(RMul(RNeg(RAdd(One, RDiv(RAdd(a.material.restitution, b.material.restitution), Two))),
                  velocity_along_normal(a, b, c.normal)),
             RAdd(inv_mass(a), inv_mass(b)))

AverageFriction(c) ==
    RDiv(RAdd(pre[c.body_a + 1].material.friction,
              pre[c.body_b + 1].material.friction), Two)

\* the magnitude the friction impulse of the record is to have: the smaller of
\* the one that cancels the tangential relative velocity and
\* averageFriction * |j|
FrictionMagnitude(c) ==
    LET a == pre[c.body_a + 1]
        b == pre[c.body_b + 1]
        speed == norm(TangentialVelocity(pre, c))
    IN  RMin(RDiv(speed, RAdd(inv_mass(a), inv_mass(b))),
             RMul(AverageFriction(c), RAbs(NormalImpulseScalar(c))))

\* the tangential impulse body i received in the pass: its mass times the
\* change of its velocity across the normal
TangentialImpulseOn(i, c) ==
    VScale(Tangential(VSub(bodies[i].velocity, pre[i].velocity), c.normal), pre[i].mass)

\* C16: for a resolved record with a tangential relative velocity above the
\* tolerance, the friction impulse is directed against that velocity on body_b
\* (and with it on body_a) with magnitude min(cancelling magnitude,
\* averageFriction * |j|); the tangential relative velocity after the pass is
\* the one before scaled by a factor in [0, 1], and is unchanged when the
\* average friction is 0 or the speed is within the tolerance.
C16_FrictionOpposesAndIsCapped ==
    (OneRecord /\ Resolved(collisions[1])) =>
        LET c == collisions[1]
            a == c.body_a + 1
            b == c.body_b + 1
            T == TangentialVelocity(pre, c)
            speed == norm(T)
            total_inv_mass == RAdd(inv_mass(pre[a]), inv_mass(pre[b]))
        IN  IF GtEps(speed, 7)
            THEN LET F == VScale(T, RNeg(RDiv(FrictionMagnitude(c), speed)))
                     k == RSub(One, RDiv(RMul(FrictionMagnitude(c), total_inv_mass), speed))
                 IN  /\ IsDynamic(pre[b]) => TangentialImpulseOn(b, c) = F
                     /\ IsDynamic(pre[a]) => TangentialImpulseOn(a, c) = VScale(F, <<-1, 1>>)
                     /\ TangentialVelocity(bodies, c) = VScale(T, k)
                     /\ RLe(Zero, k) /\ RLe(k, One)
                     /\ AverageFriction(c) = Zero => TangentialVelocity(bodies, c) = T
            ELSE TangentialVelocity(bodies, c) = T

\* a pass has applied a friction impulse at the cap averageFriction * |j|,
\* slowing the sliding of two Dynamic bodies without stopping it
C16_Witness ==
    /\ OneRecord
    /\ Resolved(collisions[1])
    /\ IsDynamic(pre[1]) /\ IsDynamic(pre[2])
    /\ RLt(Zero, AverageFriction(collisions[1]))
    /\ TangentialVelocity(bodies, collisions[1]) # zeros
    /\ TangentialVelocity(bodies, collisions[1]) # TangentialVelocity(pre, collisions[1])

\* a pass has applied the friction impulse that stops the sliding, at a contact
\* whose normal is along neither axis
C16_FullCancel ==
    /\ OneRecord
    /\ Resolved(collisions[1])
    /\ TangentialVelocity(pre, collisions[1]) # zeros
    /\ TangentialVelocity(bodies, collisions[1]) = zeros
    /\ collisions[1].normal.x # Zero /\ collisions[1].normal.y # Zero

\* ------------------------------------------------------------------------
\* SpecRects: two axis-aligned rectangles placed on a grid around each other,
\* apart, touching, overlapping and concentric
\* ------------------------------------------------------------------------

RectDeltaSet == {-4, -3, -1, 0, 1, 3, 4}

\* width x height: a square and an upright rectangle
RectSizeSet == {<<4, 4>>, <<2, 4>>}

\* a rectangle at (x, y); at least one of a pair is Dynamic
RectAt(x, y, size, t) ==
    new_rectangle(IV(x, y), <<size[1], 1>>, <<size[2], 1>>,
                  IF t = "Static" THEN stone ELSE wood, t)

RectWorlds ==
    {<<RectAt(0, 0, s1, ts[1]), RectAt(dx, dy, s2, ts[2])>> :
        s1 \in RectSizeSet, s2 \in RectSizeSet,
        ts \in {<<"Dynamic", "Dynamic">>, <<"Static", "Dynamic">>, <<"Dynamic", "Static">>},
        dx \in RectDeltaSet, dy \in RectDeltaSet}

InitRects == InitWith(RectWorlds, {zeros})

NextRects == DetectResolve

SpecRects == InitRects /\ [][NextRects]_vars

\* the overlap of the rectangles r1 and r2 along x and along y: the sum of the
\* half extents less the distance of the centres
OverlapX(r1, r2) ==
    RSub(RDiv(RAdd(r1.shape.width, r2.shape.width), Two),
         RAbs(RSub(r2.position.x, r1.position.x)))
OverlapY(r1, r2) ==
    RSub(RDiv(RAdd(r1.shape.height, r2.shape.height), Two),
         RAbs(RSub(r2.position.y, r1.position.y)))

\* +1 for a number that is positive or zero, -1 for a negative one
SignOrPositive(a) == IF RLt(a, Zero) THEN <<-1, 1>> ELSE One

\* C17: two axis-aligned rectangles yield a record if and only if their
\* overlaps on x and on y are both strictly positive; its normal is
\* (sign(dx), 0) when the x overlap is strictly the smaller and (0, sign(dy))
\* otherwise, dx, dy being the centre delta from the lower to the higher index
\* and the sign of zero being +1.
C17_RectanglesMinimumOverlapAxis ==
    (Ran1 /\ Len(pre) = 2 /\ IsRectangle(pre[1]) /\ IsRectangle(pre[2])) =>
        LET ox == OverlapX(pre[1], pre[2])
            oy == OverlapY(pre[1], pre[2])
            dx == RSub(pre[2].position.x, pre[1].position.x)
            dy == RSub(pre[2].position.y, pre[1].position.y)
        IN  IF RLt(Zero, ox) /\ RLt(Zero, oy)
            THEN /\ Len(collisions) = 1
                 /\ collisions[1].body_a = 0 /\ collisions[1].body_b = 1
                 /\ collisions[1].normal =
                       IF RLt(ox, oy) THEN Vec(SignOrPositive(dx), Zero)
                                      ELSE Vec(Zero, SignOrPositive(dy))
            ELSE collisions = <<>>

\* a detection has resolved a tie of the overlaps of two rectangles that are
\* not concentric, reporting the y axis downward
C17_Witness ==
    /\ Ran1
    /\ OverlapX(pre[1], pre[2]) = OverlapY(pre[1], pre[2])
    /\ pre[1].position # pre[2].position
    /\ collisions # <<>>
    /\ collisions[1].normal = IV(0, -1)

\* a detection has reported the x axis for two rectangles with no centre delta
\* on x
C17_ZeroDelta ==
    /\ Ran1
    /\ pre[1].position.x = pre[2].position.x
    /\ collisions # <<>>
    /\ collisions[1].normal = IV(1, 0)

\* a detection has reported nothing for two rectangles that touch along an edge
C17_Touching ==
    /\ Ran1
    /\ OverlapX(pre[1], pre[2]) = Zero
    /\ RLt(Zero, OverlapY(pre[1], pre[2]))
    /\ collisions = <<>>

\* ------------------------------------------------------------------------
\* The passes of one World::update (under Spec)
\* ------------------------------------------------------------------------

\* the detection on bs and on the bodies after each of k further
\* detect + resolve passes returns the records `first`
RECURSIVE EveryPassDetects(_, _, _)
EveryPassDetects(bs, k, first) ==
    /\ detect_collisions(bs) = first
    /\ \/ k = 0
       \/ EveryPassDetects(resolve_collisions(bs, detect_collisions(bs)), k - 1, first)

Positions(bs) == [i \in 1..Len(bs) |-> bs[i].position]

\* C18: in a World::update the solver leaves every position as integration
\* made it, and the detection of every pass returns the records of the first
\* pass; the update stops at the first pass if that found nothing and runs all
\* SOLVER_ITERATIONS detect + resolve passes otherwise.
C18_DetectionSameInEveryPass ==
    op.name = "world_update" =>
        LET integrated == Integrate(pre, gravity, op.dt)
            first == detect_collisions(integrated)
        IN  /\ Positions(bodies) = Positions(integrated)
            /\ EveryPassDetects(integrated, SOLVER_ITERATIONS, first)
            /\ collisions = first
            /\ solver = IF first = <<>> THEN Ran(1, 0)
                        ELSE Ran(SOLVER_ITERATIONS, SOLVER_ITERATIONS)

\* a World::update whose first pass found a contact has run every pass, the
\* resolutions have turned a body round, and the contact is still detected
C18_Witness ==
    /\ op.name = "world_update"
    /\ detect_collisions(Integrate(pre, gravity, op.dt)) # <<>>
    /\ solver.detects = SOLVER_ITERATIONS
    /\ detect_collisions(bodies) = collisions
    /\ \E i \in 1..Len(bodies) :
          RLt(dot(bodies[i].velocity, Integrate(pre, gravity, op.dt)[i].velocity), Zero)

\* ------------------------------------------------------------------------
\* Forces applied between ticks (under Spec)
\* ------------------------------------------------------------------------

Velocities(bs) == [i \in 1..Len(bs) |-> bs[i].velocity]

\* bs as it would be had apply_force(f) not been called on body i
WithoutForce(bs, i, f) ==
    IF IsDynamic(bs[i]) THEN [bs EXCEPT ![i].force = VSub(bs[i].force, f)] ELSE bs

\* C19: the positions and velocities a World::update leaves are those it would
\* have left had an apply_force call made on any body before it not been
\* made: a force applied between ticks is erased before integration.
C19_ForceAppliedBetweenTicksErased ==
    op.name = "world_update" =>
        \A i \in 1..Len(pre), f \in ForceSet :
            \E r \in {World_update(WithoutForce(pre, i, f), gravity, op.dt)} :
                /\ Positions(bodies) = Positions(r.bodies)
                /\ Velocities(bodies) = Velocities(r.bodies)

\* a World::update under gravity has moved a Dynamic body that held an upward
\* applied force when the update began
C19_Witness ==
    /\ op.name = "world_update"
    /\ gravity # zeros
    /\ \E i \in 1..Len(bodies), f \in ForceSet :
          /\ IsDynamic(pre[i])
          /\ pre[i].force = f
          /\ bodies[i].position # pre[i].position
          /\ bodies[i].force # pre[i].force

====
